---------------------------- MODULE Spec2Model ----------------------------
(***************************************************************************)
(* A model of src/app.py: the WhatsApp webhook (/incoming) that extracts   *)
(* contact records with a language model, appends them to a spreadsheet    *)
(* and to the in-memory list received_messages, and the server-sent-event  *)
(* endpoint (/stream) that polls that list.                                *)
(*                                                                         *)
(* Text is a sequence of atoms.  An atom is one punctuation character      *)
(* ("[", "]", "{", "}", ":", ",", the double quote, the apostrophe, the    *)
(* blank) or a run of other characters ("Name", "Al", "null").  find,      *)
(* rfind, replace, strip and the JSON grammar only ever look at the        *)
(* punctuation characters, so a run of other characters acts as a unit.    *)
(* The backslash is not in the alphabet: no string escapes are modelled.   *)
(***************************************************************************)
EXTENDS Integers, Sequences, FiniteSets, TLC

(***************************************************************************)
(* Bounds of the model.                                                    *)
(***************************************************************************)
\* longest JSON array the sampled model responses carry
MaxRecs == 2
\* longest arbitrary (junk) model response, in atoms
MaxJunk == 3
\* number of concurrent /incoming requests
NumReqs == 2
\* number of /stream connections
NumConns == 1

DQ == "\""
SQ == "'"
WS == " "

(***************************************************************************)
(* Python string helpers.                                                  *)
(***************************************************************************)
\* str.find(ch): the 0-based index of the first occurrence, -1 when absent
Find(s, ch) ==
    IF \E i \in 1..Len(s) : s[i] = ch
    THEN (CHOOSE i \in 1..Len(s) : s[i] = ch /\ \A j \in 1..(i-1) : s[j] # ch) - 1
    ELSE -1

\* str.rfind(ch): the 0-based index of the last occurrence, -1 when absent
RFind(s, ch) ==
    IF \E i \in 1..Len(s) : s[i] = ch
    THEN (CHOOSE i \in 1..Len(s) : s[i] = ch /\ \A j \in (i+1)..Len(s) : s[j] # ch) - 1
    ELSE -1

\* s[start:end] for 0 <= start, 0 <= end (empty when end <= start)
Slice(s, start, end) == SubSeq(s, start + 1, IF end > Len(s) THEN Len(s) ELSE end)

\* str.replace(old, new) for one-character old and new
Replace(s, old, new) == [i \in 1..Len(s) |-> IF s[i] = old THEN new ELSE s[i]]

\* str.strip(): leading and trailing blanks removed
Strip(s) ==
    IF \A i \in 1..Len(s) : s[i] = WS THEN <<>>
    ELSE LET a == CHOOSE i \in 1..Len(s) : s[i] # WS /\ \A j \in 1..(i-1) : s[j] = WS
             b == CHOOSE i \in 1..Len(s) : s[i] # WS /\ \A j \in (i+1)..Len(s) : s[j] = WS
         IN  SubSeq(s, a, b)

(***************************************************************************)
(* json.loads on the atom alphabet.  A value is [t, v]: t = "str" with v   *)
(* the string's atoms, "lit" (a number, true, false, null) with v the      *)
(* atom, "arr" with v the elements, "obj" with v the members in source     *)
(* order, each [k |-> key atoms, val |-> value].                           *)
(***************************************************************************)
Literals == {"null", "7"}

JNull == [t |-> "lit", v |-> <<"null">>]
JFail == [ok |-> FALSE, pos |-> 0, val |-> JNull]
JOk(p, value) == [ok |-> TRUE, pos |-> p, val |-> value]

\* the first position >= i that holds no blank (Len(s)+1 when none)
SkipWs(s, i) ==
    IF \E j \in i..Len(s) : s[j] # WS
    THEN CHOOSE j \in i..Len(s) : s[j] # WS /\ \A k \in i..(j-1) : s[k] = WS
    ELSE Len(s) + 1

\* a string that opens at position j: it ends at the next double quote
ParseString(s, j) ==
    IF \E e \in (j+1)..Len(s) : s[e] = DQ
    THEN LET e == CHOOSE e \in (j+1)..Len(s) :
                      s[e] = DQ /\ \A k \in (j+1)..(e-1) : s[k] # DQ
         IN  JOk(e + 1, [t |-> "str", v |-> SubSeq(s, j + 1, e - 1)])
    ELSE JFail

RECURSIVE ParseValue(_, _), ParseElements(_, _, _), ParseMembers(_, _, _)

ParseValue(s, i) ==
    LET j == SkipWs(s, i) IN
    IF j > Len(s) THEN JFail
    ELSE IF s[j] = DQ THEN ParseString(s, j)
    ELSE IF s[j] = "["
         THEN LET k == SkipWs(s, j + 1) IN
              IF k <= Len(s) /\ s[k] = "]"
              THEN JOk(k + 1, [t |-> "arr", v |-> <<>>])
              ELSE ParseElements(s, j + 1, <<>>)
    ELSE IF s[j] = "{"
         THEN LET k == SkipWs(s, j + 1) IN
              IF k <= Len(s) /\ s[k] = "}"
              THEN JOk(k + 1, [t |-> "obj", v |-> <<>>])
              ELSE ParseMembers(s, j + 1, <<>>)
    ELSE IF s[j] \in Literals THEN JOk(j + 1, [t |-> "lit", v |-> <<s[j]>>])
    ELSE JFail

ParseElements(s, i, acc) ==
    LET r == ParseValue(s, i) IN
    IF ~r.ok THEN JFail
    ELSE LET k == SkipWs(s, r.pos) IN
         IF k > Len(s) THEN JFail
         ELSE IF s[k] = "," THEN ParseElements(s, k + 1, Append(acc, r.val))
         ELSE IF s[k] = "]" THEN JOk(k + 1, [t |-> "arr", v |-> Append(acc, r.val)])
         ELSE JFail

ParseMembers(s, i, acc) ==
    LET j == SkipWs(s, i) IN
    IF j > Len(s) \/ s[j] # DQ THEN JFail
    ELSE LET key == ParseString(s, j) IN
         IF ~key.ok THEN JFail
         ELSE LET c == SkipWs(s, key.pos) IN
              IF c > Len(s) \/ s[c] # ":" THEN JFail
              ELSE LET r == ParseValue(s, c + 1) IN
                   IF ~r.ok THEN JFail
                   ELSE LET k == SkipWs(s, r.pos)
                            m == Append(acc, [k |-> key.val.v, val |-> r.val])
                        IN  IF k > Len(s) THEN JFail
                            ELSE IF s[k] = "," THEN ParseMembers(s, k + 1, m)
                            ELSE IF s[k] = "}" THEN JOk(k + 1, [t |-> "obj", v |-> m])
                            ELSE JFail

\* json.loads(s): one value, then nothing but blanks; ok = FALSE is JSONDecodeError
JsonLoads(s) ==
    LET r == ParseValue(s, 1) IN
    IF r.ok /\ SkipWs(s, r.pos) > Len(s) THEN r ELSE JFail

(***************************************************************************)
(* extract_details.  The language model is external: its outcome is an     *)
(* input, [kind, text] with kind = "raise" (generate_content raises),      *)
(* "none" (response.text is None) or "text".                               *)
(***************************************************************************)
EmptyRecord == [Name |-> <<>>, Email |-> <<>>, Phone |-> <<>>]

\* dict.get(key, ""): the last member with that key wins, as in a Python dict
DictGet(d, key) ==
    IF \E i \in 1..Len(d.v) : d.v[i].k = <<key>>
    THEN d.v[CHOOSE i \in 1..Len(d.v) :
                 d.v[i].k = <<key>> /\ \A j \in (i+1)..Len(d.v) : d.v[j].k # <<key>>].val
    ELSE [t |-> "str", v |-> <<>>]

\* d.get(...).strip() succeeds on a dict whose value for the key is a str
FieldOk(d, key) == d.t = "obj" /\ DictGet(d, key).t = "str"

\* the loop of lines 106-112: AttributeError on the first element that is
\* no dict or holds a non-string under one of the three keys
Clean(details_list) ==
    IF \E i \in 1..Len(details_list) :
           ~(FieldOk(details_list[i], "Name") /\ FieldOk(details_list[i], "Email")
               /\ FieldOk(details_list[i], "Phone"))
    THEN [exc |-> "AttributeError", val |-> <<>>]
    ELSE [exc |-> "none",
          val |-> [i \in 1..Len(details_list) |->
                     [Name  |-> Strip(DictGet(details_list[i], "Name").v),
                      Email |-> Strip(DictGet(details_list[i], "Email").v),
                      Phone |-> Strip(DictGet(details_list[i], "Phone").v)]]]

\* the substring handed to json.loads (line 103)
JsonStr(data) == Replace(Slice(data, Find(data, "["), RFind(data, "]") + 1), SQ, DQ)

\* the body of the try block, lines 91-114: the exception it raises, or its value
TryBody(outcome) ==
    IF outcome.kind = "raise" THEN [exc |-> "APIError", val |-> <<>>]
    ELSE IF outcome.kind = "none" THEN [exc |-> "AttributeError", val |-> <<>>]
    ELSE LET data  == Strip(outcome.text)
             start == Find(data, "[")
             end   == RFind(data, "]") + 1
         IN  IF start = -1 \/ end = 0 THEN [exc |-> "ValueError", val |-> <<>>]
             ELSE LET parsed == JsonLoads(JsonStr(data)) IN
                  IF ~parsed.ok THEN [exc |-> "JSONDecodeError", val |-> <<>>]
                  ELSE LET cleaned == Clean(parsed.val.v) IN
                       IF cleaned.exc # "none" THEN cleaned
                       ELSE IF cleaned.val # <<>> THEN cleaned
                       ELSE [exc |-> "none", val |-> <<EmptyRecord>>]

\* a handler that lets AttributeError through (except ValueError)
CaughtValueErrorOnly(exc) == exc \in {"ValueError", "JSONDecodeError"}

\* except Exception (line 115): every exception of the try block is caught
Caught(exc) == exc \in {"APIError", "AttributeError", "ValueError", "JSONDecodeError"}

\* extract_details: [exc, val]; exc # "none" is an exception that escapes
ExtractDetails(outcome) ==
    LET b == TryBody(outcome) IN
    IF b.exc = "none" THEN b
    ELSE IF Caught(b.exc) THEN [exc |-> "none", val |-> <<EmptyRecord>>]
    ELSE b

(***************************************************************************)
(* Sampled model responses.  A sample is a recipe [kind, prefix, arr,      *)
(* suffix, quote]; arr is a sequence of objects, an object a sequence of   *)
(* members [k, v] with string values.                                      *)
(***************************************************************************)
NameVals  == {<<>>, <<WS, "Al", WS>>, <<"O", SQ, "B">>}
EmailVals == {<<"a@x">>}
PhoneVals == {<<WS>>}

Member(key, vals) == {<<>>} \cup {<<[k |-> key, v |-> x]>> : x \in vals}

ObjPool == {n \o e \o p : n \in Member("Name", NameVals),
                          e \in Member("Email", EmailVals),
                          p \in Member("Phone", PhoneVals)}

RECURSIVE SeqsUpTo(_, _)
SeqsUpTo(S, n) ==
    IF n = 0 THEN {<<>>}
    ELSE LET shorter == SeqsUpTo(S, n - 1)
         IN  shorter \cup {Append(q, x) : q \in shorter, x \in S}

Prefixes == {<<>>, <<"Here", ":", WS>>}
Suffixes == {<<>>, <<WS, "ok">>, <<WS, "[", "1", "]">>}
JunkAlphabet == {"[", "]", "{", "}", DQ, ",", "x", "null"}

RECURSIVE RenderMembers(_, _)
RenderMembers(obj, q) ==
    IF obj = <<>> THEN <<>>
    ELSE <<q, Head(obj).k, q, ":", WS, q>> \o Head(obj).v \o <<q>>
         \o (IF Len(obj) > 1 THEN <<",", WS>> ELSE <<>>) \o RenderMembers(Tail(obj), q)

RECURSIVE RenderElements(_, _)
RenderElements(arr, q) ==
    IF arr = <<>> THEN <<>>
    ELSE <<"{">> \o RenderMembers(Head(arr), q) \o <<"}">>
         \o (IF Len(arr) > 1 THEN <<",", WS>> ELSE <<>>) \o RenderElements(Tail(arr), q)

\* the text of a sample
Render(smp) ==
    IF smp.kind = "json"
    THEN smp.prefix \o <<"[">> \o RenderElements(smp.arr, smp.quote) \o <<"]">> \o smp.suffix
    ELSE smp.prefix

JsonSamples ==
    {[kind |-> "json", prefix |-> p, arr |-> a, suffix |-> s, quote |-> q] :
        p \in Prefixes, a \in SeqsUpTo(ObjPool, MaxRecs), s \in Suffixes, q \in {DQ, SQ}}

JunkSamples ==
    {[kind |-> "text", prefix |-> j, arr |-> <<>>, suffix |-> <<>>, quote |-> DQ] :
        j \in SeqsUpTo(JunkAlphabet, MaxJunk)}

\* responses whose array parses and holds an element, or a value, that is no string
OddSamples ==
    {[kind |-> "text", prefix |-> j, arr |-> <<>>, suffix |-> <<>>, quote |-> DQ] :
        j \in {<<"[", "{", DQ, "Name", DQ, ":", "null", "}", "]">>,
               <<"[", "{", DQ, "Phone", DQ, ":", WS, "7", "}", "]">>,
               <<"[", "{", DQ, "Name", DQ, ":", DQ, "Al", DQ, "}", ",", "[", "]", "]">>,
               <<"[", "{", DQ, "Tags", DQ, ":", "[", "7", "]", ",", DQ, "Email", DQ, ":",
                 DQ, "a@x", DQ, "}", "]">>,
               <<"[", "{", DQ, "Name", DQ, ":", DQ, "Al", DQ, ",", DQ, "Name", DQ, ":",
                 DQ, "Bo", DQ, "}", "]">>}}

FailSamples ==
    {[kind |-> k, prefix |-> <<>>, arr |-> <<>>, suffix |-> <<>>, quote |-> DQ] :
        k \in {"raise", "none"}}

Samples == JsonSamples \cup JunkSamples \cup OddSamples \cup FailSamples

\* the model's outcome for a sample
Outcome(smp) == [kind |-> IF smp.kind = "json" THEN "text" ELSE smp.kind, text |-> Render(smp)]

(***************************************************************************)
(* The /incoming form.  A field is [has, v]: has = FALSE when the request  *)
(* does not carry it (request.form.get returns its default).               *)
(***************************************************************************)
Absent == [has |-> FALSE, v |-> <<>>]
Field(x) == [has |-> TRUE, v |-> x]

Digits == <<"0", "1", "2", "3", "4", "5", "6", "7", "8", "9">>
IsDigit(ch) == \E d \in 1..10 : Digits[d] = ch
DigitVal(ch) == (CHOOSE d \in 1..10 : Digits[d] = ch) - 1

RECURSIVE DigitsValue(_)
DigitsValue(s) ==
    IF s = <<>> THEN 0 ELSE 10 * DigitsValue(SubSeq(s, 1, Len(s) - 1)) + DigitVal(s[Len(s)])

\* int(str): blanks stripped, an optional sign, then digits; ValueError otherwise
PyInt(s) ==
    LET t    == Strip(s)
        neg  == t # <<>> /\ t[1] = "-"
        body == IF t # <<>> /\ t[1] \in {"+", "-"} THEN Tail(t) ELSE t
    IN  IF body = <<>> \/ \E i \in 1..Len(body) : ~IsDigit(body[i])
        THEN [exc |-> "ValueError", val |-> 0]
        ELSE [exc |-> "none", val |-> IF neg THEN 0 - DigitsValue(body) ELSE DigitsValue(body)]

\* int(request.form.get("NumMedia", 0)), line 124
NumMediaOf(form) == IF form.NumMedia.has THEN PyInt(form.NumMedia.v) ELSE [exc |-> "none", val |-> 0]

\* request.form.get("Body") or "", line 123
BodyOf(form) == IF form.Body.has THEN form.Body.v ELSE <<>>

\* extract_text_from_file: fetched is the outcome of the download and of the
\* format's parser, [ok, text]; a content type is a sequence of atoms
ExtractTextFromFile(media_type, fetched) ==
    IF ~fetched.ok \/ ~media_type.has THEN <<>>
    ELSE IF \E i \in 1..Len(media_type.v) : media_type.v[i] = "pdf" THEN fetched.text
    ELSE IF \E i \in 1..Len(media_type.v) : media_type.v[i] = "word" THEN fetched.text
    ELSE IF Len(media_type.v) >= 2 /\ SubSeq(media_type.v, 1, 2) = <<"image", "/">>
         THEN fetched.text
    ELSE <<>>

\* lines 123-130: the text handed to extract_details
MessageBody(form, fetched) ==
    IF NumMediaOf(form).exc = "none" /\ NumMediaOf(form).val > 0
    THEN ExtractTextFromFile(form.MediaContentType0, fetched)
    ELSE BodyOf(form)

Forms ==
    [Body : {Absent, Field(<<"Al", WS, "a@x">>)},
     NumMedia : {Absent, Field(<<"0">>), Field(<<"1">>), Field(<<WS, "1", "2">>),
                 Field(<<"a">>), Field(<<>>)},
     MediaContentType0 : {Absent, Field(<<"application", "/", "pdf">>),
                          Field(<<"text", "/", "plain">>)}]

Fetches == {[ok |-> FALSE, text |-> <<>>], [ok |-> TRUE, text |-> <<"Al", WS, "a@x">>]}

(***************************************************************************)
(* The language model's outcomes in the webhook: it may raise, or answer   *)
(* with an array of up to MaxPeople objects, each a contact with a phone   *)
(* number only or one whose fields are blank.                              *)
(***************************************************************************)
\* longest array the model returns to a webhook request
MaxPeople == 2

PhoneOnly == <<[k |-> "Phone", v |-> <<WS, "9", WS>>]>>
BlankOnly == <<[k |-> "Name", v |-> <<>>], [k |-> "Phone", v |-> <<WS>>]>>

\* whatever the prompt's text, the model is free to answer anything
GeminiOutcomes(text) ==
    {[kind |-> "raise", text |-> <<>>]}
    \cup {[kind |-> "text", text |-> <<"[">> \o RenderElements(a, DQ) \o <<"]">>] :
             a \in SeqsUpTo({PhoneOnly, BlankOnly}, MaxPeople) \ {<<>>}}

(***************************************************************************)
(* State.                                                                  *)
(***************************************************************************)
Reqs  == 1..NumReqs
Conns == 1..NumConns

VARIABLES
    sample, xpc, xres,   \* one call of extract_details on a sampled response
    pc,                  \* pc[r]: where request r is in incoming_message
    people,              \* people[r]: the extractor's result (line 133)
    idx,                 \* idx[r]: the loop's position in people[r] (line 136)
    count,               \* count[r] (lines 135, 145)
    reply,               \* reply[r]: the message of the reply document
    sheet,               \* the spreadsheet's rows, each [req, i, row]
    sheetCalls,          \* history: sheetCalls[r], the sheet.append_row calls of r, [i, ok]
    received_messages,   \* the global list of line 50
    origin,              \* history: origin[k] = [req, i] of received_messages[k]
    spc,                 \* spc[c]: where connection c is in event_stream
    last_len,            \* last_len[c] (lines 167, 171)
    new_data,            \* new_data[c] (line 170)
    new_from,            \* history: the index new_data[c] was sliced from
    emitted,             \* history: the events connection c has yielded
    openLen              \* history: len(received_messages) when c was opened

xvars == <<sample, xpc, xres>>
rvars == <<pc, people, idx, count, reply>>
svars == <<spc, last_len, new_data, new_from, emitted, openLen>>
vars  == <<sample, xpc, xres, pc, people, idx, count, reply, sheet, sheetCalls,
           received_messages, origin, spc, last_len, new_data, new_from, emitted,
           openLen>>

NoReply == [kind |-> "none", n |-> 0]
NoSample == [kind |-> "raise", prefix |-> <<>>, arr |-> <<>>, suffix |-> <<>>, quote |-> DQ]

PipelineInit ==
    /\ pc = [r \in Reqs |-> "idle"]
    /\ people = [r \in Reqs |-> <<>>]
    /\ idx = [r \in Reqs |-> 0]
    /\ count = [r \in Reqs |-> 0]
    /\ reply = [r \in Reqs |-> NoReply]
    /\ sheet = <<>>
    /\ sheetCalls = [r \in Reqs |-> <<>>]
    /\ received_messages = <<>>
    /\ origin = <<>>
    /\ spc = [c \in Conns |-> "closed"]
    /\ last_len = [c \in Conns |-> 0]
    /\ new_data = [c \in Conns |-> <<>>]
    /\ new_from = [c \in Conns |-> 0]
    /\ emitted = [c \in Conns |-> <<>>]
    /\ openLen = [c \in Conns |-> 0]

Init ==
    /\ sample = NoSample
    /\ xpc = "off"
    /\ xres = [exc |-> "none", val |-> <<>>]
    /\ PipelineInit

(***************************************************************************)
(* incoming_message.                                                       *)
(***************************************************************************)
\* a filter that forgets the phone number
HasDetailsNoPhone(person) == person.Name # <<>> \/ person.Email # <<>>

\* line 142: if name or email or phone
HasDetails(person) == person.Name # <<>> \/ person.Email # <<>> \/ person.Phone # <<>>

\* the loop of line 136 from position i on: the next record that passes the
\* filter of line 142, or Len(ppl) + 1 when the loop is over
NextPerson(ppl, i) ==
    IF \E j \in i..Len(ppl) : HasDetails(ppl[j])
    THEN CHOOSE j \in i..Len(ppl) :
             HasDetails(ppl[j]) /\ \A k \in i..(j-1) : ~HasDetails(ppl[k])
    ELSE Len(ppl) + 1

\* lines 122-133 for one form, one download and one answer of the model:
\* [exc, val], exc # "none" an exception that nothing catches
ReadAndExtract(form, fetched, outcome) ==
    IF NumMediaOf(form).exc # "none" THEN [exc |-> NumMediaOf(form).exc, val |-> <<>>]
    ELSE ExtractDetails(outcome)

\* what lines 122-133 can come to, over the forms, downloads and answers
IncomingResults ==
    UNION {{ReadAndExtract(form, fetched, outcome) :
               outcome \in GeminiOutcomes(MessageBody(form, fetched))} :
           form \in Forms, fetched \in Fetches}

\* lines 122-142: the form is read, the text extracted, the model asked;
\* an exception here is not caught and Flask answers 500
Incoming(r) ==
    /\ pc[r] = "idle"
    /\ \E res \in IncomingResults :
         IF res.exc # "none"
         THEN /\ pc' = [pc EXCEPT ![r] = "error500"]
              /\ reply' = [reply EXCEPT ![r] = [kind |-> res.exc, n |-> 500]]
              /\ UNCHANGED <<people, idx>>
         ELSE /\ people' = [people EXCEPT ![r] = res.val]
              /\ UNCHANGED reply
              /\ idx' = [idx EXCEPT ![r] = NextPerson(res.val, 1)]
              /\ pc' = [pc EXCEPT ![r] = IF idx'[r] > Len(res.val) THEN "reply" ELSE "sheet"]
    /\ UNCHANGED <<count, sheet, sheetCalls, received_messages, origin>>
    /\ UNCHANGED svars
    /\ UNCHANGED xvars

\* a handler whose try does not cover the append: a failure ends the request
SheetAppendUncaught(r) ==
    /\ pc[r] = "sheet"
    /\ \E ok \in BOOLEAN :
         /\ sheetCalls' = [sheetCalls EXCEPT ![r] = Append(@, [i |-> idx[r], ok |-> ok])]
         /\ IF ok
            THEN /\ sheet' = Append(sheet, [req |-> r, i |-> idx[r], row |-> people[r][idx[r]]])
                 /\ count' = [count EXCEPT ![r] = @ + 1]
                 /\ pc' = [pc EXCEPT ![r] = "buffer"]
            ELSE /\ UNCHANGED <<sheet, count>>
                 /\ pc' = [pc EXCEPT ![r] = "error500"]
    /\ UNCHANGED <<people, idx, reply, received_messages, origin>>
    /\ UNCHANGED svars
    /\ UNCHANGED xvars

\* lines 143-147: sheet.append_row succeeds (the row is added and counted) or
\* raises (logged, nothing else; a call that raises is taken to add no row)
SheetAppend(r) ==
    /\ pc[r] = "sheet"
    /\ \E ok \in BOOLEAN :
         /\ sheetCalls' = [sheetCalls EXCEPT ![r] = Append(@, [i |-> idx[r], ok |-> ok])]
         /\ IF ok
            THEN /\ sheet' = Append(sheet, [req |-> r, i |-> idx[r], row |-> people[r][idx[r]]])
                 /\ count' = [count EXCEPT ![r] = @ + 1]
            ELSE UNCHANGED <<sheet, count>>
    /\ pc' = [pc EXCEPT ![r] = "buffer"]
    /\ UNCHANGED <<people, idx, reply, received_messages, origin>>
    /\ UNCHANGED svars
    /\ UNCHANGED xvars

\* a push at the front of the list
BufferPushFront(buf, rec) == <<rec>> \o buf

\* list.append, line 148
BufferPush(buf, rec) == Append(buf, rec)

\* line 148, then the loop goes on to the next record that passes the filter
BufferAppend(r) ==
    /\ pc[r] = "buffer"
    /\ received_messages' = BufferPush(received_messages, people[r][idx[r]])
    /\ origin' = BufferPush(origin, [req |-> r, i |-> idx[r]])
    /\ idx' = [idx EXCEPT ![r] = NextPerson(people[r], idx[r] + 1)]
    /\ pc' = [pc EXCEPT ![r] = IF idx'[r] > Len(people[r]) THEN "reply" ELSE "sheet"]
    /\ UNCHANGED <<people, count, reply, sheet, sheetCalls>>
    /\ UNCHANGED svars
    /\ UNCHANGED xvars

\* a comparison that is off by one
TwimlReplyAtLeastOne(c) ==
    IF c >= 1 THEN [kind |-> "one", n |-> 1] ELSE [kind |-> "novalid", n |-> 0]

\* lines 151-157: the one message of the reply
TwimlReply(c) ==
    IF c > 1 THEN [kind |-> "many", n |-> c]
    ELSE IF c = 1 THEN [kind |-> "one", n |-> 1]
    ELSE [kind |-> "novalid", n |-> 0]

\* lines 151-159
Reply(r) ==
    /\ pc[r] = "reply"
    /\ reply' = [reply EXCEPT ![r] = TwimlReply(count[r])]
    /\ pc' = [pc EXCEPT ![r] = "done"]
    /\ UNCHANGED <<people, idx, count, sheet, sheetCalls, received_messages, origin>>
    /\ UNCHANGED svars
    /\ UNCHANGED xvars

(***************************************************************************)
(* stream / event_stream.  Another thread may run between any two of the   *)
(* loop's reads of received_messages, so each read is a step.              *)
(***************************************************************************)
\* lines 164-167: a connection is opened, last_len = 0
OpenStream(c) ==
    /\ spc[c] = "closed"
    /\ spc' = [spc EXCEPT ![c] = "check"]
    /\ last_len' = [last_len EXCEPT ![c] = 0]
    /\ openLen' = [openLen EXCEPT ![c] = Len(received_messages)]
    /\ UNCHANGED <<new_data, new_from, emitted>>
    /\ UNCHANGED <<sheet, sheetCalls, received_messages, origin>>
    /\ UNCHANGED rvars
    /\ UNCHANGED xvars

\* line 169: if len(received_messages) > last_len
StreamCheck(c) ==
    /\ spc[c] = "check"
    /\ spc' = [spc EXCEPT ![c] = IF Len(received_messages) > last_len[c] THEN "slice" ELSE "check"]
    /\ UNCHANGED <<last_len, new_data, new_from, emitted, openLen>>
    /\ UNCHANGED <<sheet, sheetCalls, received_messages, origin>>
    /\ UNCHANGED rvars
    /\ UNCHANGED xvars

\* line 170: new_data = received_messages[last_len:]
StreamSlice(c) ==
    /\ spc[c] = "slice"
    /\ new_data' = [new_data EXCEPT ![c] =
                       Slice(received_messages, last_len[c], Len(received_messages))]
    /\ new_from' = [new_from EXCEPT ![c] = last_len[c]]
    /\ spc' = [spc EXCEPT ![c] = "len"]
    /\ UNCHANGED <<last_len, emitted, openLen>>
    /\ UNCHANGED <<sheet, sheetCalls, received_messages, origin>>
    /\ UNCHANGED rvars
    /\ UNCHANGED xvars

\* line 171: last_len = len(received_messages)
StreamLen(c) ==
    /\ spc[c] = "len"
    /\ last_len' = [last_len EXCEPT ![c] = Len(received_messages)]
    /\ spc' = [spc EXCEPT ![c] = "yield"]
    /\ UNCHANGED <<new_data, new_from, emitted, openLen>>
    /\ UNCHANGED <<sheet, sheetCalls, received_messages, origin>>
    /\ UNCHANGED rvars
    /\ UNCHANGED xvars

\* line 172: yield the event
StreamYield(c) ==
    /\ spc[c] = "yield"
    /\ emitted' = [emitted EXCEPT ![c] = Append(@, [from |-> new_from[c], data |-> new_data[c]])]
    /\ spc' = [spc EXCEPT ![c] = "check"]
    /\ UNCHANGED <<last_len, new_data, new_from, openLen>>
    /\ UNCHANGED <<sheet, sheetCalls, received_messages, origin>>
    /\ UNCHANGED rvars
    /\ UNCHANGED xvars

RequestStep(r) == Incoming(r) \/ SheetAppend(r) \/ BufferAppend(r) \/ Reply(r)
StreamStep(c) == OpenStream(c) \/ StreamCheck(c) \/ StreamSlice(c) \/ StreamLen(c) \/ StreamYield(c)

Next == (\E r \in Reqs : RequestStep(r)) \/ (\E c \in Conns : StreamStep(c))

Spec == Init /\ [][Next]_vars

\* every request handler and every generator that can take a step eventually
\* does: the server's threads are scheduled by the operating system
FairSpec ==
    /\ Spec
    /\ \A r \in Reqs : WF_vars(RequestStep(r))
    /\ \A c \in Conns : WF_vars(StreamCheck(c) \/ StreamSlice(c) \/ StreamLen(c) \/ StreamYield(c))

(***************************************************************************)
(* One call of extract_details on a sampled response.                      *)
(***************************************************************************)
ExtractInit ==
    /\ sample \in Samples
    /\ xpc = "call"
    /\ xres = [exc |-> "none", val |-> <<>>]
    /\ PipelineInit

ExtractCall ==
    /\ xpc = "call"
    /\ xres' = ExtractDetails(Outcome(sample))
    /\ xpc' = IF xres'.exc = "none" THEN "returned" ELSE "raised"
    /\ UNCHANGED sample
    /\ UNCHANGED <<sheet, sheetCalls, received_messages, origin>>
    /\ UNCHANGED rvars
    /\ UNCHANGED svars

ExtractNext == ExtractCall

ExtractSpec == ExtractInit /\ [][ExtractNext]_vars

(***************************************************************************)
(* Vocabulary of the properties.                                           *)
(***************************************************************************)
AllBlank(p) == p.Name = <<>> /\ p.Email = <<>> /\ p.Phone = <<>>

\* the positions of ppl that hold a record with a non-empty field, ascending
RECURSIVE QualifyingFrom(_, _)
QualifyingFrom(ppl, j) ==
    IF j > Len(ppl) THEN <<>>
    ELSE (IF AllBlank(ppl[j]) THEN <<>> ELSE <<j>>) \o QualifyingFrom(ppl, j + 1)

Qualifying(ppl) == QualifyingFrom(ppl, 1)

\* the positions (in people[r]) of the records request r put in the feed buffer
BufferIdx(r) ==
    LET Mine(e) == e.req = r
        mine == SelectSeq(origin, Mine)
    IN  [k \in 1..Len(mine) |-> mine[k].i]

\* the positions of the records request r put in the spreadsheet
SheetIdx(r) ==
    LET Mine(e) == e.req = r
        mine == SelectSeq(sheet, Mine)
    IN  [k \in 1..Len(mine) |-> mine[k].i]

\* the positions request r called sheet.append_row for; those that succeeded
CallIdx(r) == [k \in 1..Len(sheetCalls[r]) |-> sheetCalls[r][k].i]
OkCallIdx(r) ==
    LET Ok(e) == e.ok
        oks == SelectSeq(sheetCalls[r], Ok)
    IN  [k \in 1..Len(oks) |-> oks[k].i]

IsPrefix(a, b) == Len(a) <= Len(b) /\ a = SubSeq(b, 1, Len(a))

\* the records of a sequence of events, in order
RECURSIVE Flatten(_)
Flatten(events) ==
    IF events = <<>> THEN <<>> ELSE Head(events).data \o Flatten(Tail(events))

(***************************************************************************)
(* C1.  As stated: once a request is over, every record with a non-empty   *)
(* field is exactly once in the spreadsheet and exactly once in the feed   *)
(* buffer, whatever the spreadsheet call did, and no all-empty record is   *)
(* in either.                                                              *)
(***************************************************************************)
C1_OnceInEachWhateverTheSheetDoes ==
    \A r \in Reqs :
        pc[r] = "done" =>
            /\ SheetIdx(r) = Qualifying(people[r])
            /\ BufferIdx(r) = Qualifying(people[r])

(***************************************************************************)
(* C1, amended.  No all-empty record is ever in the spreadsheet or the     *)
(* feed buffer.  Once a request is over, every record of it with a         *)
(* non-empty field is exactly once in the feed buffer and had exactly one  *)
(* spreadsheet call; it is in the spreadsheet exactly once when that call  *)
(* succeeded and not at all when it raised.                                *)
(***************************************************************************)
C1_BufferedOnceStoredIfAppendSucceeds ==
    /\ \A k \in 1..Len(received_messages) : ~AllBlank(received_messages[k])
    /\ \A k \in 1..Len(sheet) : ~AllBlank(sheet[k].row)
    /\ \A k \in 1..Len(received_messages) :
           received_messages[k] = people[origin[k].req][origin[k].i]
    /\ \A k \in 1..Len(sheet) : sheet[k].row = people[sheet[k].req][sheet[k].i]
    /\ \A r \in Reqs :
        pc[r] = "done" =>
            /\ BufferIdx(r) = Qualifying(people[r])
            /\ CallIdx(r) = Qualifying(people[r])
            /\ SheetIdx(r) = OkCallIdx(r)

\* a finished request with an all-empty record it skipped and a record whose
\* spreadsheet call raised
C1_Witness ==
    \E r \in Reqs :
        /\ pc[r] = "done"
        /\ \E j \in 1..Len(people[r]) : AllBlank(people[r][j])
        /\ \E k \in 1..Len(sheetCalls[r]) : ~sheetCalls[r][k].ok
        /\ BufferIdx(r) # <<>>

(***************************************************************************)
(* C2.  No event of a connection holds a record that was in the feed       *)
(* buffer when the connection was opened: every event is sliced from a     *)
(* position at or after the buffer's length at that time.                  *)
(***************************************************************************)
C2_NoReplayOfPriorRecords ==
    \A c \in Conns :
        \A k \in 1..Len(emitted[c]) : emitted[c][k].from >= openLen[c]

(***************************************************************************)
(* C3.  Between two iterations of its loop, the events a connection has    *)
(* emitted, put end to end, are the feed buffer up to the connection's     *)
(* watermark: nothing skipped, nothing twice.                              *)
(***************************************************************************)
C3_EventsAreTheBufferUpToWatermark ==
    \A c \in Conns :
        spc[c] \in {"check", "slice"} =>
            Flatten(emitted[c]) = SubSeq(received_messages, 1, last_len[c])

(***************************************************************************)
(* C4.  A connection opened on an empty feed buffer eventually has         *)
(* emitted every record the requests appended, in buffer order.            *)
(***************************************************************************)
AllRequestsOver == \A r \in Reqs : pc[r] \in {"done", "error500"}

C4_EventuallyEmitsAll ==
    \A c \in Conns :
        (spc[c] # "closed" /\ openLen[c] = 0 /\ AllRequestsOver)
            ~> (Flatten(emitted[c]) = received_messages)

(***************************************************************************)
(* C7.  A spreadsheet call that raises ends neither the loop nor the       *)
(* request: a request that has called the spreadsheet is never answered    *)
(* with a server error, every record with a non-empty field that the loop  *)
(* has passed had its call, and a finished request had a call for each     *)
(* and carries a reply message.                                            *)
(***************************************************************************)
C7_SheetFailureDoesNotStopTheRequest ==
    \A r \in Reqs :
        /\ sheetCalls[r] # <<>> => pc[r] # "error500"
        /\ pc[r] \in {"sheet", "buffer", "reply", "done"} =>
               \A j \in 1..Len(people[r]) :
                   (j < idx[r] /\ ~AllBlank(people[r][j])) =>
                       \E k \in 1..Len(sheetCalls[r]) : sheetCalls[r][k].i = j
        /\ pc[r] = "done" =>
               /\ CallIdx(r) = Qualifying(people[r])
               /\ reply[r].kind \in {"novalid", "one", "many"}

\* a finished request whose first spreadsheet call raised and that went on to
\* call the spreadsheet for a later record
C7_Witness ==
    \E r \in Reqs :
        /\ pc[r] = "done"
        /\ Len(sheetCalls[r]) >= 2
        /\ ~sheetCalls[r][1].ok

(***************************************************************************)
(* C8.  The reply of a finished request is decided by the number c of rows *)
(* the request put in the spreadsheet: "no valid details" exactly when     *)
(* c = 0, the one-candidate message exactly when c = 1, else the message   *)
(* that states c.                                                          *)
(***************************************************************************)
C8_ReplyStatesStoredRows ==
    \A r \in Reqs :
        pc[r] = "done" =>
            LET c == Len(SheetIdx(r)) IN
            /\ reply[r].kind = "novalid" <=> c = 0
            /\ reply[r].kind = "one" <=> c = 1
            /\ reply[r].kind = "many" <=> c > 1
            /\ reply[r].kind = "many" => reply[r].n = c

\* a finished request that stored two rows, and another that stored none
\* although it held a record whose spreadsheet call raised
C8_Witness ==
    \E r, q \in Reqs :
        /\ pc[r] = "done" /\ Len(SheetIdx(r)) = 2 /\ reply[r].kind = "many"
        /\ pc[q] = "done" /\ Len(SheetIdx(q)) = 0 /\ sheetCalls[q] # <<>>

(***************************************************************************)
(* C9.  No /incoming request is answered with a server error on account of *)
(* its form fields.                                                        *)
(***************************************************************************)
C9_NeverRejectedForItsForm ==
    \A r \in Reqs : pc[r] # "error500"

(***************************************************************************)
(* C10.  Every step leaves the feed buffer as it was or adds one record at *)
(* its end, a step of a connection leaves it as it was, and the records a  *)
(* request has put in it are, in order, the first of its records with a    *)
(* non-empty field.                                                        *)
(***************************************************************************)
C10_FeedBufferIsAppendOnly ==
    /\ [][\/ received_messages' = received_messages
          \/ /\ Len(received_messages') = Len(received_messages) + 1
             /\ SubSeq(received_messages', 1, Len(received_messages)) = received_messages]_vars
    /\ [][svars' # svars => received_messages' = received_messages]_vars
    /\ [](\A r \in Reqs : IsPrefix(BufferIdx(r), Qualifying(people[r])))

\* the records of two requests interleaved in the buffer while a connection
\* has emitted an event
C10_Witness ==
    /\ Len(origin) >= 3
    /\ origin[1].req = origin[3].req
    /\ origin[2].req # origin[1].req
    /\ \E c \in Conns : emitted[c] # <<>>

(***************************************************************************)
(* C5.  extract_details never raises and returns at least one record; it   *)
(* returns exactly one record, all of whose fields are empty, when the     *)
(* model call raises, when the response has no text, no "[" or no "]",     *)
(* when the bracketed text is no JSON, when an element is no object or a   *)
(* field no string, and when the array is empty.                           *)
(***************************************************************************)
HasAtom(text, ch) == \E i \in 1..Len(text) : text[i] = ch

\* the bracketed text of a response, from its first "[" to its last "]"
Bracketed(text) ==
    LET first == CHOOSE i \in 1..Len(text) : text[i] = "[" /\ ~HasAtom(SubSeq(text, 1, i - 1), "[")
        last  == CHOOSE i \in 1..Len(text) :
                     text[i] = "]" /\ ~HasAtom(SubSeq(text, i + 1, Len(text)), "]")
    IN  SubSeq(text, first, last)

\* an element that is an object with strings under the three keys it carries
CleanElement(d) ==
    /\ d.t = "obj"
    /\ \A m \in 1..Len(d.v) : d.v[m].k \in {<<"Name">>, <<"Email">>, <<"Phone">>} => d.v[m].val.t = "str"

FailureCase(smp) ==
    \/ smp.kind \in {"raise", "none"}
    \/ ~HasAtom(Render(smp), "[")
    \/ ~HasAtom(Render(smp), "]")
    \/ LET parsed == JsonLoads(Replace(Bracketed(Render(smp)), SQ, DQ)) IN
       \/ ~parsed.ok
       \/ parsed.val.v = <<>>
       \/ \E i \in 1..Len(parsed.val.v) : ~CleanElement(parsed.val.v[i])

C5_AlwaysAtLeastOneRecord ==
    /\ xpc # "raised"
    /\ xpc = "returned" =>
           /\ Len(xres.val) >= 1
           /\ \A i \in 1..Len(xres.val) : DOMAIN xres.val[i] = {"Name", "Email", "Phone"}
           /\ FailureCase(sample) => xres.val = <<EmptyRecord>>

\* a call that returned the one empty record for a response whose array parses
\* but holds null under "Name"
C5_Witness ==
    /\ xpc = "returned"
    /\ sample.kind = "text"
    /\ sample.prefix = <<"[", "{", DQ, "Name", DQ, ":", "null", "}", "]">>
    /\ xres.val = <<EmptyRecord>>

(***************************************************************************)
(* C6.  For a response that holds a well-formed JSON array of one or more  *)
(* objects with string values under Name, Email and Phone, whatever the    *)
(* text around it and the characters in the values, extract_details        *)
(* returns one record per element, in order, each field trimmed and a      *)
(* missing key read as the empty string.                                   *)
(***************************************************************************)
\* the value an object of a sample gives a key, trimmed; empty when missing
Trimmed(obj, key) ==
    IF \E m \in 1..Len(obj) : obj[m].k = key
    THEN Strip(obj[CHOOSE m \in 1..Len(obj) : obj[m].k = key].v)
    ELSE <<>>

Expected(arr) ==
    [i \in 1..Len(arr) |-> [Name  |-> Trimmed(arr[i], "Name"),
                            Email |-> Trimmed(arr[i], "Email"),
                            Phone |-> Trimmed(arr[i], "Phone")]]

C6_ReturnsTheArrayTrimmed ==
    (xpc = "returned" /\ sample.kind = "json" /\ sample.quote = DQ /\ sample.arr # <<>>)
        => xres.val = Expected(sample.arr)

=============================================================================
